---- MODULE Spec2Model ----
(***************************************************************************)
(* c10::impl::PyObjectSlot (c10/core/impl/PyObjectSlot.cpp).               *)
(*                                                                         *)
(* The slot holds two atomics: pyobj_interpreter_ (the bound interpreter,  *)
(* or nullptr) and pyobj_ (a tagged word: bit 0 is the "owns" flag, the    *)
(* other bits are the PyObject address).  Every atomic access of the       *)
(* source is one step of the model, so that calls running on different     *)
(* threads interleave at the granularity the hardware allows.              *)
(***************************************************************************)
EXTENDS Integers, Naturals, Sequences, FiniteSets, TLC

(* ---------------------------- bounds ----------------------------------- *)
WordBits == 3            \* width of the modelled uintptr_t
NumInterpreters == 2     \* distinct PyInterpreter objects that may be bound
NumThreads == 2          \* threads calling into the slot
MaxOps == 4              \* operations invoked on the slot before destruction
MaxLiveOps == 3          \* the same, where termination is checked
MaxTeardowns == 2        \* invocations of maybe_destroy_pyobj() on one slot

(* ---------------------------- values ----------------------------------- *)
RECURSIVE Pow2(_)
Pow2(n) == IF n = 0 THEN 1 ELSE 2 * Pow2(n - 1)

Word == 0 .. (Pow2(WordBits) - 1)
nullptr == 0
Interpreters == 1 .. NumInterpreters
Threads == 1 .. NumThreads
PyObjects == {w \in Word : w % 2 = 0}      \* aligned addresses, 0 = null

\* w & ~0x1ULL
Untag(w) == w - (w % 2)
\* (w & ~0x1ULL) | (b ? 1 : 0)
Tag_Xor(w, b) == IF b THEN (IF w % 2 = 1 THEN w - 1 ELSE w + 1) ELSE w
Tag_OnlySets(w, b) == IF b THEN Untag(w) + 1 ELSE w
Tag(w, b) == Untag(w) + (IF b THEN 1 ELSE 0)

VARIABLES
  pyobj_interpreter_,   \* std::atomic<PyInterpreter*>
  pyobj_,               \* std::atomic<uintptr_t>
  pc,                   \* per thread: position inside set_owns_pyobj
  arg_b,                \* per thread: the argument b of set_owns_pyobj
  expected,             \* per thread: the local `expected`
  dpc,                  \* position of the destructor
  teardowns,            \* maybe_destroy_pyobj() invocations so far
  dword,                \* destructor: the word owns_pyobj() loaded at line 12
  dinterp,              \* destructor: interpreter loaded at line 15
  dobj,                 \* destructor: argument evaluated at line 16
  decrefs,              \* calls made to PyInterpreter::decref, in order
  ret,                  \* what the most recent step returned to its caller
  lastCas,              \* history: per thread, outcome of its latest CAS
  flagWrite,            \* history: the latest write of bit 0 by a caller
  addrWrite,            \* history: the latest address a caller stored
  everOwned,            \* history: some set_owns_pyobj(true) has returned
  ops                   \* history: operations invoked so far

vars == <<pyobj_interpreter_, pyobj_, pc, arg_b, expected, dpc, teardowns, dword,
          dinterp,
          dobj, decrefs, ret, lastCas, flagWrite, addrWrite, everOwned, ops>>

slot == <<pyobj_interpreter_, pyobj_>>
threadVars == <<pc, arg_b, expected, lastCas>>
dtorVars == <<dpc, teardowns, dword, dinterp, dobj, decrefs>>
histVars == <<flagWrite, addrWrite, everOwned>>

Void == [op |-> "void", val |-> 0, err |-> "none"]

(* ------------------------ pure parts of the code ----------------------- *)
\* PyObjectSlot::PyObjectSlot() : pyobj_interpreter_(nullptr), pyobj_(0)
Ctor_Owning == [interp |-> nullptr, obj |-> 1]
Ctor == [interp |-> nullptr, obj |-> 0]

\* PyObjectSlot::pyobj_interpreter()
pyobj_interpreter(interp) == interp

\* PyObjectSlot::_unchecked_untagged_pyobj()
unchecked_untagged_pyobj_Tagged(w) == w
unchecked_untagged_pyobj(w) == Untag(w)

\* PyObjectSlot::owns_pyobj()
owns_pyobj_NonNull(w) == w # 0
owns_pyobj(w) == (w % 2) # 0

\* PyObjectSlot::load_pyobj_interpreter(): the interpreter, or the
\* c10::Error raised by TORCH_CHECK(false, ...)
load_pyobj_interpreter_Unchecked(interp) ==
  [op |-> "load_pyobj_interpreter", val |-> interp, err |-> "none"]
load_pyobj_interpreter(interp) ==
  IF interp # nullptr
    THEN [op |-> "load_pyobj_interpreter", val |-> interp, err |-> "none"]
    ELSE [op |-> "load_pyobj_interpreter", val |-> nullptr,
          err |-> "NoInterpreterBound"]

\* std::atomic::compare_exchange_weak(expected, desired): the outcomes the
\* standard allows.  It succeeds only if the object holds `expected`; it may
\* fail although it does (a spurious failure); on failure `expected` is
\* reloaded from the object.
compare_exchange_weak_NoReload(obj, exp, desired) ==
  IF obj = exp
    THEN {[ok |-> TRUE, obj |-> desired, exp |-> exp],
          [ok |-> FALSE, obj |-> obj, exp |-> exp]}
    ELSE {[ok |-> FALSE, obj |-> obj, exp |-> exp]}
compare_exchange_weak_Blind(obj, exp, desired) ==
  {[ok |-> TRUE, obj |-> desired, exp |-> exp]}
compare_exchange_weak(obj, exp, desired) ==
  IF obj = exp
    THEN {[ok |-> TRUE, obj |-> desired, exp |-> exp],
          [ok |-> FALSE, obj |-> obj, exp |-> obj]}
    ELSE {[ok |-> FALSE, obj |-> obj, exp |-> obj]}

(* ------------------------------ Init ----------------------------------- *)
Init ==
  /\ pyobj_interpreter_ = Ctor.interp
  /\ pyobj_ = Ctor.obj
  /\ pc = [t \in Threads |-> "idle"]
  /\ arg_b = [t \in Threads |-> FALSE]
  /\ expected = [t \in Threads |-> 0]
  /\ dpc = "alive"
  /\ teardowns = 0
  /\ dword = 0
  /\ dinterp = nullptr
  /\ dobj = 0
  /\ decrefs = <<>>
  /\ ret = Void
  /\ lastCas = [t \in Threads |-> "none"]
  /\ flagWrite = [by |-> "ctor", val |-> FALSE]
  /\ addrWrite = 0
  /\ everOwned = FALSE
  /\ ops = 0

(* --------------------------- guards ------------------------------------ *)
\* The destructor has not been entered.
Alive == dpc = "alive"
\* No call is in progress on any thread.
Quiescent == \A t \in Threads : pc[t] = "idle"
\* The bound that keeps the number of invoked operations finite.
MayInvoke == ops < MaxOps
MayInvokeLive == ops < MaxLiveOps

(* --------------- binding and address writes (PyObjectSlot.h) ----------- *)
\* Bind interpreter i: pyobj_interpreter_ goes from nullptr to i, once.
BindInterpreter(i) ==
  /\ pyobj_interpreter_ = nullptr
  /\ pyobj_interpreter_' = i
  /\ ret' = Void
  /\ ops' = ops + 1
  /\ UNCHANGED <<pyobj_, threadVars, dtorVars, histVars>>

\* Store the address a of a PyObject into pyobj_: a store of the whole word,
\* the pointer being aligned (bit 0 clear).
StorePyObj(a) ==
  /\ pyobj_' = a
  /\ flagWrite' = [by |-> "store", val |-> FALSE]
  /\ addrWrite' = a
  /\ ret' = Void
  /\ ops' = ops + 1
  /\ UNCHANGED <<pyobj_interpreter_, threadVars, dtorVars, everOwned>>

(* ------------------------------ reads ---------------------------------- *)
\* In the value a read returns, `again` is history: the call before it, with
\* no write in between, was the same read.
\* PyObjectSlot::pyobj_interpreter(): one acquire load.
Call_pyobj_interpreter ==
  /\ ret' = [op |-> "pyobj_interpreter",
             val |-> pyobj_interpreter(pyobj_interpreter_), err |-> "none",
             again |-> (ret.op = "pyobj_interpreter")]
  /\ ops' = ops + 1
  /\ UNCHANGED <<slot, threadVars, dtorVars, histVars>>

\* PyObjectSlot::load_pyobj_interpreter(): one acquire load, then the check.
Call_load_pyobj_interpreter ==
  /\ ret' = load_pyobj_interpreter(pyobj_interpreter_)
  /\ ops' = ops + 1
  /\ UNCHANGED <<slot, threadVars, dtorVars, histVars>>

\* PyObjectSlot::_unchecked_untagged_pyobj(): one acquire load.
Call_unchecked_untagged_pyobj ==
  /\ ret' = [op |-> "_unchecked_untagged_pyobj",
             val |-> unchecked_untagged_pyobj(pyobj_), err |-> "none",
             again |-> (ret.op = "_unchecked_untagged_pyobj")]
  /\ ops' = ops + 1
  /\ UNCHANGED <<slot, threadVars, dtorVars, histVars>>

\* PyObjectSlot::owns_pyobj(): one acquire load.
Call_owns_pyobj_Consumes ==
  /\ ret' = [op |-> "owns_pyobj", val |-> owns_pyobj(pyobj_), err |-> "none",
             again |-> (ret.op = "owns_pyobj")]
  /\ pyobj_' = Untag(pyobj_)
  /\ ops' = ops + 1
  /\ UNCHANGED <<pyobj_interpreter_, threadVars, dtorVars, histVars>>
Call_owns_pyobj ==
  /\ ret' = [op |-> "owns_pyobj", val |-> owns_pyobj(pyobj_), err |-> "none",
             again |-> (ret.op = "owns_pyobj")]
  /\ ops' = ops + 1
  /\ UNCHANGED <<slot, threadVars, dtorVars, histVars>>

(* --------------------------- set_owns_pyobj ---------------------------- *)
\* History only: why an attempt failed, from the word in pyobj_ and the
\* `expected` it was compared with.
Failed(obj, exp) ==
  IF obj = exp THEN "spurious"
  ELSE IF Untag(obj) = Untag(exp) THEN "flag_changed"
  ELSE "addr_changed"

\* History only: how the call returned, from the outcome of the attempt
\* before the successful one.
Returned(last) ==
  IF last = "flag_changed" THEN "ok_after_flag_change"
  ELSE IF last = "addr_changed" THEN "ok_after_addr_change"
  ELSE "ok"

\* History only: the same, telling apart the call whose successful
\* compare-exchange wrote the word pyobj_ already held.
ReturnedFrom(last, before, after) ==
  IF Returned(last) = "ok" /\ before = after THEN "ok_unchanged"
  ELSE Returned(last)

\* Thread t enters set_owns_pyobj(b) and executes line 49, the relaxed load
\* of pyobj_ into `expected`.
SetOwns_Load(t, b) ==
  /\ pc[t] = "idle"
  /\ pc' = [pc EXCEPT ![t] = "cas"]
  /\ arg_b' = [arg_b EXCEPT ![t] = b]
  /\ expected' = [expected EXCEPT ![t] = pyobj_]
  /\ lastCas' = [lastCas EXCEPT ![t] = "none"]
  /\ ops' = ops + 1
  /\ UNCHANGED <<slot, dtorVars, ret, histVars>>

\* Thread t executes lines 52-54 once: it computes `value` from `expected`
\* and attempts the compare_exchange_weak.  On success the call returns; on
\* failure `expected` holds the word just seen and the loop goes round.
SetOwns_Cas_Releases(t) ==
  /\ pc[t] = "cas"
  /\ LET value == Tag(expected[t], arg_b[t])
     IN \E out \in compare_exchange_weak(pyobj_, expected[t], value) :
          IF out.ok
            THEN /\ pyobj_' = out.obj
                 /\ pc' = [pc EXCEPT ![t] = "idle"]
                 /\ expected' = [expected EXCEPT ![t] = 0]
                 /\ lastCas' = [lastCas EXCEPT ![t] =
                                  ReturnedFrom(lastCas[t], pyobj_, out.obj)]
                 /\ arg_b' = [arg_b EXCEPT ![t] = FALSE]
                 /\ flagWrite' = [by |-> "cas", val |-> arg_b[t]]
                 /\ everOwned' = (everOwned \/ arg_b[t])
                 /\ ret' = Void
                 /\ decrefs' =
                      IF ~arg_b[t] /\ pyobj_ % 2 = 1 /\ pyobj_interpreter_ # nullptr
                        THEN Append(decrefs, [interp |-> pyobj_interpreter_,
                                              obj |-> Untag(pyobj_),
                                              has_pyobj_slot |-> TRUE])
                        ELSE decrefs
            ELSE /\ pyobj_' = out.obj
                 /\ pc' = pc
                 /\ arg_b' = arg_b
                 /\ expected' = [expected EXCEPT ![t] = out.exp]
                 /\ lastCas' = [lastCas EXCEPT ![t] =
                                  Failed(pyobj_, expected[t])]
                 /\ UNCHANGED <<flagWrite, everOwned, ret, decrefs>>
  /\ UNCHANGED <<pyobj_interpreter_, dpc, teardowns, dword, dinterp, dobj,
                 addrWrite, ops>>
SetOwns_Cas(t) ==
  /\ pc[t] = "cas"
  /\ LET value == Tag(expected[t], arg_b[t])
     IN \E out \in compare_exchange_weak(pyobj_, expected[t], value) :
          IF out.ok
            THEN /\ pyobj_' = out.obj
                 /\ pc' = [pc EXCEPT ![t] = "idle"]
                 /\ expected' = [expected EXCEPT ![t] = 0]
                 /\ lastCas' = [lastCas EXCEPT ![t] =
                                  ReturnedFrom(lastCas[t], pyobj_, out.obj)]
                 /\ arg_b' = [arg_b EXCEPT ![t] = FALSE]
                 /\ flagWrite' = [by |-> "cas", val |-> arg_b[t]]
                 /\ everOwned' = (everOwned \/ arg_b[t])
                 /\ ret' = Void
            ELSE /\ pyobj_' = out.obj
                 /\ pc' = pc
                 /\ arg_b' = arg_b
                 /\ expected' = [expected EXCEPT ![t] = out.exp]
                 /\ lastCas' = [lastCas EXCEPT ![t] =
                                  Failed(pyobj_, expected[t])]
                 /\ UNCHANGED <<flagWrite, everOwned, ret>>
  /\ UNCHANGED <<pyobj_interpreter_, dtorVars, addrWrite, ops>>

\* The attempt of SetOwns_Cas(t) that succeeds.
SetOwns_CasOk(t) == SetOwns_Cas(t) /\ pc'[t] = "idle"

(* ------------------ ~PyObjectSlot / maybe_destroy_pyobj ---------------- *)
\* ~PyObjectSlot() is entered (line 7) and calls maybe_destroy_pyobj().
Dtor_Enter ==
  /\ dpc = "alive"
  /\ dpc' = "L12"
  /\ teardowns' = teardowns + 1
  /\ UNCHANGED <<slot, threadVars, dword, dinterp, dobj, decrefs, ret, histVars, ops>>

\* line 12: if (owns_pyobj())
Dtor_L12_ClearsAnyway ==
  /\ dpc = "L12"
  /\ dword' = pyobj_
  /\ IF owns_pyobj(pyobj_)
       THEN dpc' = "L13" /\ pyobj_' = pyobj_
       ELSE dpc' = "done" /\ pyobj_' = 0
  /\ UNCHANGED <<pyobj_interpreter_, threadVars, teardowns, dinterp, dobj,
                 decrefs, ret, histVars, ops>>
Dtor_L12_NoTest ==
  /\ dpc = "L12"
  /\ dword' = pyobj_
  /\ dpc' = "L13"
  /\ UNCHANGED <<slot, threadVars, teardowns, dinterp, dobj, decrefs, ret, histVars,
                 ops>>
Dtor_L12 ==
  /\ dpc = "L12"
  /\ dword' = pyobj_
  /\ dpc' = IF owns_pyobj(pyobj_) THEN "L13" ELSE "done"
  /\ UNCHANGED <<slot, threadVars, teardowns, dinterp, dobj, decrefs, ret, histVars,
                 ops>>

\* line 13: TORCH_INTERNAL_ASSERT(pyobj_interpreter_ != nullptr)
Dtor_L13_NoAssert ==
  /\ dpc = "L13"
  /\ dpc' = "L14"
  /\ UNCHANGED <<slot, threadVars, teardowns, dword, dinterp, dobj, decrefs, ret, histVars, ops>>
Dtor_L13 ==
  /\ dpc = "L13"
  /\ IF pyobj_interpreter_ # nullptr
       THEN dpc' = "L14" /\ ret' = ret
       ELSE dpc' = "fatal" /\
            ret' = [op |-> "TORCH_INTERNAL_ASSERT", val |-> 13, err |-> "fatal"]
  /\ UNCHANGED <<slot, threadVars, teardowns, dword, dinterp, dobj, decrefs, histVars, ops>>

\* line 14: TORCH_INTERNAL_ASSERT(pyobj_ != 0)
Dtor_L14 ==
  /\ dpc = "L14"
  /\ IF pyobj_ # 0
       THEN dpc' = "L15" /\ ret' = ret
       ELSE dpc' = "fatal" /\
            ret' = [op |-> "TORCH_INTERNAL_ASSERT", val |-> 14, err |-> "fatal"]
  /\ UNCHANGED <<slot, threadVars, teardowns, dword, dinterp, dobj, decrefs, histVars, ops>>

\* line 15: pyobj_interpreter_.load(acquire), the object decref is called on
Dtor_L15 ==
  /\ dpc = "L15"
  /\ dinterp' = pyobj_interpreter_
  /\ dpc' = "L16arg"
  /\ UNCHANGED <<slot, threadVars, teardowns, dword, dobj, decrefs, ret, histVars, ops>>

\* line 16: the argument _unchecked_untagged_pyobj()
Dtor_L16arg ==
  /\ dpc = "L16arg"
  /\ dobj' = unchecked_untagged_pyobj(pyobj_)
  /\ dpc' = "L16call"
  /\ UNCHANGED <<slot, threadVars, teardowns, dword, dinterp, decrefs, ret, histVars, ops>>

\* line 16: the call ->decref(obj, /*has_pyobj_slot*/ true)
Dtor_L16call ==
  /\ dpc = "L16call"
  /\ decrefs' = Append(decrefs, [interp |-> dinterp, obj |-> dobj,
                                 has_pyobj_slot |-> TRUE])
  /\ dpc' = "L23"
  /\ UNCHANGED <<slot, threadVars, teardowns, dword, dinterp, dobj, ret, histVars, ops>>

\* line 23: pyobj_.store(0, relaxed); the destructor then returns
Dtor_L23_ClearsInterpreter ==
  /\ dpc = "L23"
  /\ pyobj_' = 0
  /\ pyobj_interpreter_' = nullptr
  /\ dpc' = "done"
  /\ UNCHANGED <<threadVars, teardowns, dword, dinterp, dobj, decrefs, ret, histVars, ops>>
Dtor_L23_KeepsFlag ==
  /\ dpc = "L23"
  /\ pyobj_' = pyobj_ % 2
  /\ dpc' = "done"
  /\ UNCHANGED <<pyobj_interpreter_, threadVars, teardowns, dword, dinterp, dobj,
                 decrefs, ret, histVars, ops>>
Dtor_L23 ==
  /\ dpc = "L23"
  /\ pyobj_' = 0
  /\ dpc' = "done"
  /\ UNCHANGED <<pyobj_interpreter_, threadVars, teardowns, dword, dinterp, dobj, decrefs,
                 ret, histVars, ops>>

\* maybe_destroy_pyobj() is invoked once more on the same slot, after the
\* invocation before it has returned.
Dtor_Again ==
  /\ dpc = "done"
  /\ teardowns < MaxTeardowns
  /\ dpc' = "L12"
  /\ teardowns' = teardowns + 1
  /\ UNCHANGED <<slot, threadVars, dword, dinterp, dobj, decrefs, ret, histVars, ops>>

Dtor_Step ==
  \/ Dtor_L12
  \/ Dtor_L13
  \/ Dtor_L14
  \/ Dtor_L15
  \/ Dtor_L16arg
  \/ Dtor_L16call
  \/ Dtor_L23

(* --------------------------- specification ----------------------------- *)
\* Operations run on the threads in any interleaving while the object is
\* alive.  The destructor is entered only once no call is in progress
\* (source lines 17-20: it "can only be entered when there are no references
\* to this C++ object") and then runs alone.
Next ==
  \/ Alive /\ MayInvoke /\ \E i \in Interpreters : BindInterpreter(i)
  \/ Alive /\ MayInvoke /\ \E a \in PyObjects : StorePyObj(a)
  \/ Alive /\ MayInvoke /\ Call_pyobj_interpreter
  \/ Alive /\ MayInvoke /\ Call_load_pyobj_interpreter
  \/ Alive /\ MayInvoke /\ Call_unchecked_untagged_pyobj
  \/ Alive /\ MayInvoke /\ Call_owns_pyobj
  \/ Alive /\ MayInvoke /\ \E t \in Threads, b \in BOOLEAN : SetOwns_Load(t, b)
  \/ Alive /\ \E t \in Threads : SetOwns_Cas(t)
  \/ Quiescent /\ Dtor_Enter
  \/ Dtor_Step

Spec == Init /\ [][Next]_vars

\* Scheduling: a thread inside set_owns_pyobj keeps executing, and its
\* compare_exchange_weak does not fail for ever while pyobj_ holds
\* `expected` (a weak compare-and-exchange "should not consistently" fail
\* spuriously).
Fairness ==
  \A t \in Threads : WF_vars(SetOwns_Cas(t)) /\ WF_vars(SetOwns_CasOk(t))

\* set_owns_pyobj calls with address stores running alongside, under that
\* scheduling.
LiveNext ==
  \/ Alive /\ MayInvokeLive /\ \E a \in PyObjects : StorePyObj(a)
  \/ Alive /\ MayInvokeLive /\ \E t \in Threads, b \in BOOLEAN : SetOwns_Load(t, b)
  \/ Alive /\ \E t \in Threads : SetOwns_Cas(t)

LiveSpec == Init /\ [][LiveNext]_vars /\ Fairness

\* Spec, with maybe_destroy_pyobj() invoked again after it has returned.
TwiceNext ==
  \/ Next
  \/ Dtor_Again

SpecTwice == Init /\ [][TwiceNext]_vars

\* The destructor entered while set_owns_pyobj calls are still running or
\* still being made on other threads: the precondition of lines 17-22 is
\* not met.  Binding and address stores precede the destructor.
Running == dpc \notin {"done", "fatal"}
RaceNext ==
  \/ Alive /\ MayInvoke /\ \E i \in Interpreters : BindInterpreter(i)
  \/ Alive /\ MayInvoke /\ \E a \in PyObjects : StorePyObj(a)
  \/ Running /\ MayInvoke /\ \E t \in Threads, b \in BOOLEAN : SetOwns_Load(t, b)
  \/ Running /\ \E t \in Threads : SetOwns_Cas(t)
  \/ Dtor_Enter
  \/ Dtor_Step

SpecRace == Init /\ [][RaceNext]_vars

(* ------------------------------ claims --------------------------------- *)
\* The destructor has executed line 12, the test of owns_pyobj().
PastL12 == dpc \notin {"alive", "L12"}
\* What the callers did before destruction, from the history.
Bound == pyobj_interpreter_ # nullptr
LastFlagWriteWas(b) == flagWrite = [by |-> "cas", val |-> b]

\* C1: run-once teardown.  decref is called at most once for the slot, and
\* not at all when the word the destructor tested at line 12 had bit 0 clear.
C1_RunOnceTeardown ==
  /\ Len(decrefs) <= 1
  /\ (PastL12 /\ dword % 2 = 0) => decrefs = <<>>

\* C1 witness: a destruction that released, after ownership had been set.
C1_Witness ==
  dpc = "done" /\ Len(decrefs) = 1 /\ dword % 2 = 1

\* C2: interpreter C bound, address A # 0 stored, set_owns_pyobj(true) the
\* last write of the flag: a finished destruction has called decref exactly
\* once, on C, with A (not A|1) and has_pyobj_slot = true, and no assertion
\* has failed.
C2_OwningSlotReleasesOnce ==
  (Bound /\ addrWrite # 0 /\ LastFlagWriteWas(TRUE)) =>
     /\ dpc # "fatal"
     /\ dpc \in {"L23", "done"} =>
          decrefs = << [interp |-> pyobj_interpreter_, obj |-> addrWrite,
                        has_pyobj_slot |-> TRUE] >>
     /\ dpc \notin {"L23", "done"} => decrefs = <<>>

\* C2 witness: such a slot, destroyed.
C2_Witness ==
  /\ dpc = "done"
  /\ Bound /\ addrWrite # 0 /\ LastFlagWriteWas(TRUE)
  /\ Len(decrefs) = 1

\* C3: ownership was taken and then relinquished (the last write of the flag
\* is set_owns_pyobj(false), after a set_owns_pyobj(true)): destruction calls
\* decref never and fails no assertion.
C3_RelinquishedSlotNotReleased ==
  (Bound /\ addrWrite # 0 /\ everOwned /\ LastFlagWriteWas(FALSE)) =>
     /\ decrefs = <<>>
     /\ dpc \in {"alive", "L12", "done"}

\* C3 witness: such a slot, destroyed.
C3_Witness ==
  /\ dpc = "done"
  /\ Bound /\ addrWrite # 0 /\ everOwned /\ LastFlagWriteWas(FALSE)

\* C4: set_owns_pyobj calls racing on two threads.  Once all have returned,
\* the flag is the argument of the call whose compare-exchange succeeded
\* last, and the address bits are the address last stored: no call changed
\* them.
C4_FlagAddressCoherence ==
  (Alive /\ Quiescent /\ flagWrite.by = "cas") =>
     /\ ((pyobj_ % 2) = 1) = flagWrite.val
     /\ Untag(pyobj_) = addrWrite

\* C4 witness: an address was stored, then two calls ran concurrently and
\* one had its compare-exchange fail because the other had flipped the flag.
C4_Witness ==
  /\ Alive /\ Quiescent /\ ops = 3
  /\ addrWrite # 0 /\ flagWrite.by = "cas"
  /\ \E t, u \in Threads :
       /\ lastCas[t] = "ok"
       /\ lastCas[u] = "ok_after_flag_change"

\* C5: the interpreter pointer, once bound, never changes: no step of any
\* operation, the teardown included, writes it.
C5_InterpreterImmutable ==
  [][pyobj_interpreter_ # nullptr => pyobj_interpreter_' = pyobj_interpreter_]_vars

\* C5 witness: the teardown has released and cleared pyobj_, and the
\* interpreter is still the one the release went to.
C5_Witness ==
  /\ dpc = "done" /\ Len(decrefs) = 1 /\ pyobj_ = 0
  /\ pyobj_interpreter_ # nullptr
  /\ decrefs[1].interp = pyobj_interpreter_

\* C6: load_pyobj_interpreter() raises NoInterpreterBound exactly when the
\* interpreter is nullptr at its load, returns what pyobj_interpreter()
\* returns otherwise, and writes neither atomic.
C6_FailFastOnUnbound ==
  [][Call_load_pyobj_interpreter =>
       /\ (ret'.err = "NoInterpreterBound") <=> (pyobj_interpreter_ = nullptr)
       /\ ret'.err \in {"NoInterpreterBound", "none"}
       /\ ret'.err = "none" => ret'.val = pyobj_interpreter(pyobj_interpreter_)
       /\ pyobj_interpreter_' = pyobj_interpreter_
       /\ pyobj_' = pyobj_]_vars

\* C6 witness: the call has failed on an unbound slot.
C6_Witness ==
  /\ ret.op = "load_pyobj_interpreter"
  /\ ret.err = "NoInterpreterBound"
  /\ pyobj_interpreter_ = nullptr

\* C7: teardown of a slot whose flag is set and whose interpreter is nullptr
\* stops at the assertion of line 13: decref is not called and pyobj_ is
\* not cleared.
C7_FatalOnMissingInterpreter ==
  (PastL12 /\ dword % 2 = 1 /\ pyobj_interpreter_ = nullptr) =>
     /\ dpc \in {"L13", "fatal"}
     /\ decrefs = <<>>
     /\ pyobj_ = dword

\* C7 witness: the assertion of line 13 has failed.
C7_Witness ==
  /\ dpc = "fatal" /\ ret.op = "TORCH_INTERNAL_ASSERT" /\ ret.val = 13
  /\ pyobj_interpreter_ = nullptr /\ pyobj_ % 2 = 1

\* C8: teardown of a slot whose flag is set, whose interpreter is bound and
\* whose address bits are zero stops at an assertion, and decref is never
\* called with a null address.
C8_FatalOnZeroAddress ==
  /\ (PastL12 /\ dword % 2 = 1 /\ Bound /\ Untag(dword) = 0) =>
        (dpc \in {"L13", "L14", "fatal"} /\ decrefs = <<>>)
  /\ \A k \in 1 .. Len(decrefs) : decrefs[k].obj # 0

\* C9 (as claimed): every set_owns_pyobj call returns, and a
\* compare-exchange fails only when pyobj_ no longer holds `expected`.
C9_Terminates ==
  \A t \in Threads : (pc[t] = "cas") ~> (pc[t] = "idle")
C9_AsClaimed ==
  /\ C9_Terminates
  /\ [](\A t \in Threads : lastCas[t] # "spurious")

\* C9 (amended): every set_owns_pyobj call returns; a compare-exchange that
\* fails leaves pyobj_ as it is and reloads `expected` with the word pyobj_
\* holds, be the failure due to a changed word or spurious.
C9_SetOwnsTerminates ==
  /\ C9_Terminates
  /\ [][\A t \in Threads :
          (SetOwns_Cas(t) /\ pc'[t] = "cas") =>
             (pyobj_' = pyobj_ /\ expected'[t] = pyobj_)]_vars

\* C9 witness: a call has returned after an attempt that failed because an
\* address store had changed the word.
C9_Witness ==
  \E t \in Threads : pc[t] = "idle" /\ lastCas[t] = "ok_after_addr_change"

\* C10: a fresh slot has no interpreter, a null address and a clear flag;
\* a slot nothing was bound to is destroyed without a decref and without a
\* failed assertion.
NothingBound == pyobj_interpreter_ = nullptr /\ addrWrite = 0 /\ ~everOwned
C10_EmptySlotLifecycle ==
  /\ (Alive /\ ops = 0) =>
        /\ pyobj_interpreter(pyobj_interpreter_) = nullptr
        /\ unchecked_untagged_pyobj(pyobj_) = 0
        /\ ~owns_pyobj(pyobj_)
  /\ (~Alive /\ NothingBound) =>
        /\ decrefs = <<>>
        /\ dpc \in {"L12", "done"}

\* C10 witness: constructed, then destroyed.
C10_Witness ==
  dpc = "done" /\ ops = 0 /\ NothingBound /\ decrefs = <<>>

\* C11: the three reads write neither atomic; _unchecked_untagged_pyobj()
\* returns the word with bit 0 cleared and owns_pyobj() returns bit 0 of it;
\* a read repeated with no write in between returns what it returned before.
C11_IdempotentReads ==
  [][/\ (Call_pyobj_interpreter \/ Call_unchecked_untagged_pyobj
            \/ Call_owns_pyobj) =>
          (pyobj_' = pyobj_ /\ pyobj_interpreter_' = pyobj_interpreter_)
     /\ Call_unchecked_untagged_pyobj =>
          (ret'.val % 2 = 0 /\ ret'.val + (pyobj_ % 2) = pyobj_)
     /\ Call_owns_pyobj => (ret'.val = (pyobj_ % 2 = 1))
     /\ ((Call_unchecked_untagged_pyobj \/ Call_owns_pyobj) /\ ret'.again) =>
          ret'.val = ret.val]_vars

\* C11 witness: owns_pyobj() called twice in a row on an owning slot with an
\* address.
C11_Witness ==
  /\ ret.op = "owns_pyobj" /\ ret.again /\ ret.val = TRUE
  /\ Untag(pyobj_) # 0

\* C12: no lost update.  The address bits of pyobj_ are always those of the
\* latest address store; the successful compare-exchange acts on the word
\* pyobj_ holds at that instant and keeps its address bits; an attempt made
\* on a word that has changed since the read fails and re-reads it.
C12_NoLostUpdate ==
  /\ [](Alive => Untag(pyobj_) = addrWrite)
  /\ [][\A t \in Threads :
          /\ SetOwns_CasOk(t) =>
               (pyobj_ = expected[t] /\ Untag(pyobj_') = Untag(pyobj_))
          /\ (SetOwns_Cas(t) /\ pyobj_ # expected[t]) =>
               (pc'[t] = "cas" /\ pyobj_' = pyobj_ /\ expected'[t] = pyobj_)]_vars

\* C12 witness: set_owns_pyobj(true) has returned after an address store
\* came between its read and its first attempt; pyobj_ holds the new address.
C12_Witness ==
  /\ Alive /\ addrWrite # 0 /\ pyobj_ = addrWrite + 1
  /\ \E t \in Threads : lastCas[t] = "ok_after_addr_change"

\* C13: teardown calls decref first and stores 0 afterwards; when it has
\* returned after a decref, pyobj_ is 0, address and flag; a second
\* invocation calls decref no further time and takes the branch of line 12.
C13_TeardownOrder ==
  /\ Len(decrefs) <= 1
  /\ dpc \in {"L13", "L14", "L15", "L16arg", "L16call"} => decrefs = <<>>
  /\ dpc = "L23" => (Len(decrefs) = 1 /\ pyobj_ = dword /\ dword % 2 = 1)
  /\ (dpc = "done" /\ decrefs # <<>>) => pyobj_ = 0
  /\ teardowns >= 2 => dpc \in {"L12", "done"}

\* C13 witness: the second invocation has returned, after a first one that
\* released.
C13_Witness ==
  teardowns = 2 /\ dpc = "done" /\ Len(decrefs) = 1 /\ pyobj_ = 0

\* C14: teardown of a slot whose flag is clear returns from line 12: no
\* decref, no assertion, pyobj_ (its address bits included) and the
\* interpreter as they were.
C14_NonOwningTeardownIsNoOp ==
  /\ []((PastL12 /\ dword % 2 = 0) =>
          /\ dpc = "done"
          /\ decrefs = <<>>
          /\ pyobj_ = dword
          /\ ret.op # "TORCH_INTERNAL_ASSERT")
  /\ [][(dpc = "L12" /\ pyobj_ % 2 = 0 /\ dpc' # dpc) =>
          /\ dpc' = "done"
          /\ pyobj_' = pyobj_
          /\ pyobj_interpreter_' = pyobj_interpreter_
          /\ decrefs' = decrefs
          /\ ret' = ret]_vars

\* C14 witness: a slot with an address, no interpreter and a clear flag has
\* been destroyed, the address still in place.
C14_Witness ==
  /\ dpc = "done" /\ dword % 2 = 0
  /\ pyobj_ # 0 /\ pyobj_ = dword
  /\ pyobj_interpreter_ = nullptr

\* C15 (as claimed): with set_owns_pyobj calls running during the teardown,
\* decref is called only when bit 0 of pyobj_ is set at the instant of the
\* call.
C15_AsClaimed ==
  [][decrefs' # decrefs => pyobj_ % 2 = 1]_vars

\* C15 (amended): decref is called only if bit 0 was set in the word
\* teardown tested at line 12; at the instant of the call it is still set
\* unless a set_owns_pyobj(false) has succeeded since that test (a set flag at
\* line 12 is always the work of a set_owns_pyobj(true), so a latest flag
\* write of false is later than the test).
C15_ReleaseFollowsTest ==
  [][/\ decrefs' # decrefs =>
          /\ dword % 2 = 1
          /\ pyobj_ % 2 = 1 \/ LastFlagWriteWas(FALSE)
     /\ (dpc = "L12" /\ dpc' = "L13") => LastFlagWriteWas(TRUE)]_vars

\* C15 witness: decref has been called although a set_owns_pyobj(false) had
\* cleared the flag after the test of line 12.
C15_Witness ==
  /\ dpc = "L23" /\ Len(decrefs) = 1
  /\ dword % 2 = 1 /\ pyobj_ % 2 = 0
  /\ LastFlagWriteWas(FALSE)

\* C16: decref is called by line 16 of maybe_destroy_pyobj and by nothing
\* else: never while the slot is alive, whatever is called on it, and in
\* particular not by the set_owns_pyobj(false) that clears the flag.
C16_ReleaseOnlyInTeardown ==
  /\ [](Alive => decrefs = <<>>)
  /\ [][decrefs' # decrefs =>
          (dpc = "L16call" /\ dpc' = "L23" /\ pyobj_' = pyobj_)]_vars

\* C16 witness: a bound, owning slot has had its flag cleared by
\* set_owns_pyobj(false) and is still alive, with no decref.
C16_Witness ==
  /\ Alive /\ Quiescent /\ decrefs = <<>>
  /\ Bound /\ addrWrite # 0 /\ everOwned /\ LastFlagWriteWas(FALSE)
  /\ pyobj_ = addrWrite

\* C17: set_owns_pyobj(b) returning leaves owns_pyobj() = b, the address of
\* _unchecked_untagged_pyobj() as it was and the interpreter as it was, on
\* any word, bound or not; called again with the same b it writes the word
\* pyobj_ already holds.
C17_SetOwnsRoundTrip ==
  [][\A t \in Threads :
       SetOwns_CasOk(t) =>
          /\ owns_pyobj(pyobj_') = arg_b[t]
          /\ unchecked_untagged_pyobj(pyobj_') = pyobj_ - (pyobj_ % 2)
          /\ pyobj_interpreter_' = pyobj_interpreter_
          /\ LastFlagWriteWas(arg_b[t]) => pyobj_' = pyobj_]_vars

\* C17 witness: set_owns_pyobj(true) called a second time on a slot with no
\* interpreter and no address has returned, the word unchanged.
C17_Witness ==
  /\ Alive /\ ~Bound /\ pyobj_ = 1
  /\ \E t \in Threads : lastCas[t] = "ok_unchanged"

====
